---- MODULE Spec2Model ----
(***************************************************************************)
(* Model of scripts/cosine_similarity.py (the similarity ranker and its    *)
(* command-line main) and of scripts/trafilatura_extract.py (the batch     *)
(* web-page extractor).                                                    *)
(*                                                                         *)
(* Representation.                                                         *)
(*  - A text is a sequence of tokens.  " " stands for superfluous white    *)
(*    space, "Fraud" is the capitalised spelling of "fraud", "the" is an   *)
(*    English stop word, "r" is a one-letter word, and "bulkA"/"bulkB"     *)
(*    each stand for a phrase of BulkTerms distinct rare words.  NonString *)
(*    stands for a JSON value that is not a string (a number).             *)
(*  - Similarities are fixed-point numbers in units of 10^-7 (Unit = 1.0); *)
(*    the rounded output fields are in units of 10^-4 (Unit4 = 1.0).       *)
(***************************************************************************)
EXTENDS Integers, Sequences, FiniteSets, TLC

(***************************************************************************)
(* Bounds of the model.                                                    *)
(***************************************************************************)
MaxN == 2          \* most candidates (existing researches) in one call
MaxUrls == 2       \* most elements of the extractor's input array
BulkTerms == 1000  \* distinct rare words one bulk phrase stands for

(***************************************************************************)
(* Program constants.                                                      *)
(***************************************************************************)
TitleMaxFeatures == 1000      \* TfidfVectorizer(max_features=1000, ...)
AbstractMaxFeatures == 2000   \* TfidfVectorizer(max_features=2000, ...)
TitleWeight == 4              \* title_sim * 0.4    (tenths)
AbstractWeight == 6           \* abstract_sim * 0.6 (tenths)
Unit4 == 10000                \* 1.0 in units of 10^-4: round(x, 4)
Unit == 1000 * Unit4          \* 1.0 in units of 10^-7: the unrounded floats

(***************************************************************************)
(* Generic helpers.                                                        *)
(***************************************************************************)
Range(s) == {s[i] : i \in DOMAIN s}

Reverse(s) == [i \in 1..Len(s) |-> s[Len(s) + 1 - i]]

SeqsUpTo(S, n) == UNION {[1..k -> S] : k \in 0..n}

RECURSIVE SumOver(_, _)
SumOver(S, f) ==
    IF S = {} THEN 0
    ELSE LET x == CHOOSE y \in S : TRUE
         IN  f[x] + SumOver(S \ {x}, f)

Max(a, b) == IF a >= b THEN a ELSE b
Min(a, b) == IF a <= b THEN a ELSE b

\* Natural numbers beyond the machine integers: sequences of digits in
\* base Base, least significant first.  They carry the products of the
\* tf-idf weights, which the library holds in 64-bit floats.
Base == 10000

RECURSIVE BigOf(_)
BigOf(n) == IF n = 0 THEN <<>> ELSE <<n % Base>> \o BigOf(n \div Base)

RECURSIVE Carry(_, _)
Carry(ds, c) ==
    IF ds = <<>> THEN BigOf(c)
    ELSE <<(Head(ds) + c) % Base>> \o Carry(Tail(ds), (Head(ds) + c) \div Base)

Digit(a, i) == IF i \in DOMAIN a THEN a[i] ELSE 0

BigAdd(a, b) == Carry([i \in 1..Max(Len(a), Len(b)) |-> Digit(a, i) + Digit(b, i)], 0)

RECURSIVE Convolve(_, _, _, _)
Convolve(a, b, k, i) ==
    IF i > Len(a) THEN 0
    ELSE a[i] * Digit(b, k + 1 - i) + Convolve(a, b, k, i + 1)

BigMul(a, b) ==
    IF a = <<>> \/ b = <<>> THEN <<>>
    ELSE Carry([k \in 1..(Len(a) + Len(b) - 1) |-> Convolve(a, b, k, 1)], 0)

RECURSIVE Trim(_)
Trim(a) ==
    IF a # <<>> /\ a[Len(a)] = 0 THEN Trim(SubSeq(a, 1, Len(a) - 1)) ELSE a

RECURSIVE LeqFrom(_, _, _)
LeqFrom(a, b, i) ==
    IF i = 0 THEN TRUE
    ELSE IF a[i] # b[i] THEN a[i] < b[i]
    ELSE LeqFrom(a, b, i - 1)

BigLeq(a, b) ==
    LET x == Trim(a)
        y == Trim(b)
    IN  IF Len(x) # Len(y) THEN Len(x) < Len(y) ELSE LeqFrom(x, y, Len(x))

RECURSIVE BigSum(_, _)
BigSum(S, f) ==
    IF S = {} THEN <<>>
    ELSE LET x == CHOOSE y \in S : TRUE
         IN  BigAdd(f[x], BigSum(S \ {x}, f))

\* Python's round(): to the nearest multiple of d, ties to the even one
RoundHalfEven(x, d) ==
    LET q == x \div d
        r == x % d
    IN  IF 2 * r < d THEN q
        ELSE IF 2 * r > d THEN q + 1
        ELSE IF q % 2 = 0 THEN q ELSE q + 1

(***************************************************************************)
(* Texts.                                                                  *)
(***************************************************************************)
NonString == <<"#number">>

IsStr(text) == text # NonString

BulkTokens == {"bulkA", "bulkB"}

StopWords == {"the"}

lower(text) == [i \in DOMAIN text |-> IF text[i] = "Fraud" THEN "fraud" ELSE text[i]]

RECURSIVE lstrip(_)
lstrip(text) ==
    IF text # <<>> /\ Head(text) = " " THEN lstrip(Tail(text)) ELSE text

strip(text) == Reverse(lstrip(Reverse(lstrip(text))))

\* preprocess_text: "" for a falsy text, else text.lower().strip();
\* a non-string that is truthy has no .lower(): AttributeError.
preprocess_raises(text) == ~IsStr(text)

preprocess_text(text) ==
    IF text = <<>> THEN <<>> ELSE strip(lower(text))

(***************************************************************************)
(* TfidfVectorizer(max_features=cap, stop_words='english').fit_transform   *)
(* and sklearn's cosine_similarity, as the library computes them.          *)
(***************************************************************************)
\* build_analyzer: tokens of two or more word characters (token_pattern
\* (?u)\b\w\w+\b), lower-cased, without the English stop words.
IsTerm(tok) == tok \notin ({" ", "r"} \cup StopWords)

analyze(doc) == SelectSeq(lower(doc), IsTerm)

\* occurrences of c among the terms of one analysed document
Count(terms, c) == Cardinality({i \in DOMAIN terms : terms[i] = c})

\* distinct words one vocabulary class stands for
Size(c) == IF c \in BulkTokens THEN BulkTerms ELSE 1

Vocabulary(docs) == UNION {Range(analyze(docs[i])) : i \in DOMAIN docs}

\* total term frequency of (each word of) class c over the collection
TotalTf(docs, c) ==
    SumOver(DOMAIN docs, [i \in DOMAIN docs |-> Count(analyze(docs[i]), c)])

VocabularySize(V) == SumOver(V, [c \in V |-> Size(c)])

\* every way to keep b words out of the classes G
RECURSIVE Distributions(_, _)
Distributions(G, b) ==
    IF G = {} THEN {<<>>}
    ELSE LET c == CHOOSE x \in G : TRUE
             rest == VocabularySize(G \ {c})
         IN  UNION { { (c :> n) @@ g : g \in Distributions(G \ {c}, b - n) }
                     : n \in Max(0, b - rest)..Min(Size(c), b) }

\* _limit_features: with more than cap words, the cap words of highest total
\* term frequency are kept, (-tfs).argsort()[:cap]; the order among words of
\* equal frequency is left to the (unstable) sort, so every choice among
\* them is an outcome.  The result maps each class to its number of kept words.
LimitFeaturesTop(docs, V, cap) ==
    LET tf == [c \in V |-> TotalTf(docs, c)]
        Above(v) == VocabularySize({c \in V : tf[c] > v})
        AtOrAbove(v) == VocabularySize({c \in V : tf[c] >= v})
        th == CHOOSE v \in {tf[c] : c \in V} : Above(v) < cap /\ cap <= AtOrAbove(v)
        high == {c \in V : tf[c] > th}
        tie == {c \in V : tf[c] = th}
        low == {c \in V : tf[c] < th}
    IN  { [c \in high |-> Size(c)] @@ g @@ [c \in low |-> 0]
          : g \in Distributions(tie, cap - Above(th)) }

LimitFeatures(docs, V, cap) ==
    IF VocabularySize(V) <= cap THEN {[c \in V |-> Size(c)]}
    ELSE LimitFeaturesTop(docs, V, cap)

\* smooth idf, ln((1 + n) / (1 + df)) + 1, in units of 10^-7, for n documents
IdfTable ==
    << <<10000000>>,
       <<14054651, 10000000>>,
       <<16931472, 12876821, 10000000>>,
       <<19162907, 15108256, 12231436, 10000000>>,
       <<20986123, 16931472, 14054651, 11823216, 10000000>>,
       <<22527630, 18472979, 15596158, 13364722, 11541507, 10000000>>,
       <<23862944, 19808293, 16931472, 14700036, 12876821, 11335314, 10000000>> >>

DocFreq(docs, c) == Cardinality({i \in DOMAIN docs : Count(analyze(docs[i]), c) > 0})

\* tf * idf of (each kept word of) class c in document doc
Weight(docs, doc, c) == Count(analyze(doc), c) * IdfTable[Len(docs)][DocFreq(docs, c)]

\* the dot product of the tf-idf rows of documents a and b
Dot(docs, kept, a, b) ==
    BigSum(DOMAIN kept,
           [c \in DOMAIN kept |->
               BigMul(BigOf(kept[c]),
                      BigMul(BigOf(Weight(docs, a, c)), BigOf(Weight(docs, b, c))))])

\* the largest c in lo..hi with c * c * p <= d
RECURSIVE RootRatio(_, _, _, _)
RootRatio(d, p, lo, hi) ==
    IF lo = hi THEN lo
    ELSE LET mid == (lo + hi + 1) \div 2
         IN  IF BigLeq(BigMul(BigMul(BigOf(mid), BigOf(mid)), p), d)
             THEN RootRatio(d, p, mid, hi)
             ELSE RootRatio(d, p, lo, mid - 1)

\* dot / (|a| * |b|) from dot2 = dot * dot and p = |a|^2 * |b|^2; rows that
\* point the same way (dot2 = p) have cosine 1
\* a cosine twice what it is
CosineOf_Doubled(dot2, p) ==
    IF Trim(dot2) = Trim(p) THEN 2 * Unit
    ELSE 2 * RootRatio(BigMul(dot2, BigMul(BigOf(Unit), BigOf(Unit))), p, 0, Unit)

CosineOf(dot2, p) ==
    IF Trim(dot2) = Trim(p) THEN Unit
    ELSE RootRatio(BigMul(dot2, BigMul(BigOf(Unit), BigOf(Unit))), p, 0, Unit)

\* cosine of the tf-idf rows of a and b, dot / (|a| * |b|): the dot product
\* of the two l2-normalised rows; a row without kept words is the zero row
\* and has cosine 0 with every row.
Cosine(docs, kept, a, b) ==
    LET dot == Dot(docs, kept, a, b)
    IN  IF Trim(dot) = <<>> THEN 0
        ELSE CosineOf(BigMul(dot, dot),
                      BigMul(Dot(docs, kept, a, a), Dot(docs, kept, b, b)))

\* fit_transform raises ValueError("empty vocabulary; ...") when no
\* document holds a word that is not a stop word.
FitRaises(docs) == Vocabulary(docs) = {}

\* the possible similarity rows cosine_similarity(vectors[0:1], vectors[1:])[0]
SimilarityRows(docs, cap) ==
    { [i \in 1..(Len(docs) - 1) |-> Cosine(docs, kept, docs[1], docs[i + 1])]
      : kept \in LimitFeatures(docs, Vocabulary(docs), cap) }

(***************************************************************************)
(* calculate_cosine_similarity.                                            *)
(***************************************************************************)
Zeros(n) == [i \in 1..n |-> 0]

\* a field vectorised whatever the query and the candidates are
FieldOutcomes_Unguarded(query, corpus, n, cap) ==
    LET docs == <<query>> \o corpus
    IN  IF FitRaises(docs)
        THEN {[fit |-> "raised", sims |-> Zeros(n)]}
        ELSE {[fit |-> "ok", sims |-> row] : row \in SimilarityRows(docs, cap)}

\* One field (lines 49-65 for titles, 68-84 for abstracts): the possible
\* pairs of (what became of fit_transform, the similarity row).
FieldOutcomes(query, corpus, n, cap) ==
    IF query # <<>> /\ corpus # <<>>
    THEN LET docs == <<query>> \o corpus
         IN  IF FitRaises(docs)
             THEN {[fit |-> "raised", sims |-> Zeros(n)]}
             ELSE {[fit |-> "ok", sims |-> row] : row \in SimilarityRows(docs, cap)}
    ELSE {[fit |-> "skipped", sims |-> Zeros(n)]}

\* the two weights exchanged
Weighted_Exchanged(title_sim, abstract_sim) ==
    title_sim * AbstractWeight + abstract_sim * TitleWeight

\* (title_sim * 0.4) + (abstract_sim * 0.6), in tenths of the unit of the similarities
Weighted(title_sim, abstract_sim) ==
    title_sim * TitleWeight + abstract_sim * AbstractWeight

\* the record appended for candidate i (0-based index i - 1)
ResultRecord(i, titles, abstracts, tsims, asims) ==
    LET title_sim == IF i <= Len(tsims) THEN tsims[i] ELSE 0
        abstract_sim == IF i <= Len(asims) THEN asims[i] ELSE 0
    IN  [index |-> i - 1,
         title |-> titles[i],
         abstract |-> abstracts[i],
         title_similarity |-> RoundHalfEven(title_sim, Unit \div Unit4),
         abstract_similarity |-> RoundHalfEven(abstract_sim, Unit \div Unit4),
         overall_similarity |->
             RoundHalfEven(Weighted(title_sim, abstract_sim), 10 * (Unit \div Unit4))]

\* the loop of lines 87-101; existing_abstracts[i] raises IndexError for the
\* first i past the end of existing_abstracts
CombineRaises(titles, abstracts) == Len(titles) > Len(abstracts)

\* a loop that stops one candidate early
Combine_OneShort(titles, abstracts, tsims, asims) ==
    [i \in 1..(Len(titles) - 1) |-> ResultRecord(i, titles, abstracts, tsims, asims)]

Combine(titles, abstracts, tsims, asims) ==
    [i \in 1..Len(titles) |-> ResultRecord(i, titles, abstracts, tsims, asims)]

\* list.sort(key=..., reverse=True): the list is reversed, sorted stably into
\* ascending key order, and reversed again (CPython's list.sort).
RECURSIVE InsertAscending(_, _)
InsertAscending(sorted, r) ==
    IF sorted = <<>> THEN <<r>>
    ELSE IF sorted[Len(sorted)].overall_similarity <= r.overall_similarity
         THEN Append(sorted, r)
         ELSE Append(InsertAscending(SubSeq(sorted, 1, Len(sorted) - 1), r),
                     sorted[Len(sorted)])

RECURSIVE StableSortAscending(_)
StableSortAscending(rs) ==
    IF rs = <<>> THEN <<>>
    ELSE InsertAscending(StableSortAscending(SubSeq(rs, 1, Len(rs) - 1)), rs[Len(rs)])

\* a descending sort that is the reverse of the ascending one
SortDescending_Reversed(rs) == Reverse(StableSortAscending(rs))

SortDescending(rs) == Reverse(StableSortAscending(Reverse(rs)))

\* preprocess_text raises on the first argument that is not a string
PreprocessRaises(ptitle, pconcept, titles, abstracts) ==
    \/ preprocess_raises(ptitle)
    \/ preprocess_raises(pconcept)
    \/ \E i \in DOMAIN titles : preprocess_raises(titles[i])
    \/ \E i \in DOMAIN abstracts : preprocess_raises(abstracts[i])

NotReached == [fit |-> "not reached", sims |-> <<>>]

\* one try block around both fields: a title vectorisation that raises
\* leaves the abstract field unvectorised
CalculateOutcomes_OneTry(ptitle, pconcept, titles, abstracts) ==
    IF PreprocessRaises(ptitle, pconcept, titles, abstracts)
    THEN {[raised |-> TRUE, error |-> "AttributeError",
           title |-> NotReached, abstract |-> NotReached, results |-> <<>>]}
    ELSE LET tp == [i \in DOMAIN titles |-> preprocess_text(titles[i])]
             ap == [i \in DOMAIN abstracts |-> preprocess_text(abstracts[i])]
             Abstracts(t) ==
                 IF t.fit = "raised"
                 THEN {[fit |-> "skipped", sims |-> Zeros(Len(abstracts))]}
                 ELSE FieldOutcomes(preprocess_text(pconcept), ap,
                                    Len(abstracts), AbstractMaxFeatures)
         IN  UNION { { IF CombineRaises(titles, abstracts)
                       THEN [raised |-> TRUE, error |-> "IndexError",
                             title |-> t, abstract |-> a, results |-> <<>>]
                       ELSE [raised |-> FALSE, error |-> "",
                             title |-> t, abstract |-> a,
                             results |-> SortDescending(
                                 Combine(titles, abstracts, t.sims, a.sims))]
                       : a \in Abstracts(t) }
                     : t \in FieldOutcomes(preprocess_text(ptitle), tp,
                                           Len(titles), TitleMaxFeatures) }

\* Every outcome of one call: whether it raised, what each field's
\* vectorisation did, the two similarity rows and the returned list.
CalculateOutcomes(ptitle, pconcept, titles, abstracts) ==
    IF PreprocessRaises(ptitle, pconcept, titles, abstracts)
    THEN {[raised |-> TRUE, error |-> "AttributeError",
           title |-> NotReached, abstract |-> NotReached, results |-> <<>>]}
    ELSE LET tp == [i \in DOMAIN titles |-> preprocess_text(titles[i])]
             ap == [i \in DOMAIN abstracts |-> preprocess_text(abstracts[i])]
         IN  { IF CombineRaises(titles, abstracts)
               THEN [raised |-> TRUE, error |-> "IndexError",
                     title |-> t, abstract |-> a, results |-> <<>>]
               ELSE [raised |-> FALSE, error |-> "",
                     title |-> t, abstract |-> a,
                     results |-> SortDescending(
                         Combine(titles, abstracts, t.sims, a.sims))]
               : t \in FieldOutcomes(preprocess_text(ptitle), tp,
                                     Len(titles), TitleMaxFeatures),
                 a \in FieldOutcomes(preprocess_text(pconcept), ap,
                                     Len(abstracts), AbstractMaxFeatures) }

(***************************************************************************)
(* The inputs the model draws from.                                        *)
(***************************************************************************)
FD == <<"fraud", "detection">>
FG == <<"fraud", "garden">>
BulkTitle == <<"bulkA", "bulkA", "bulkA">>
BulkAbstract == <<"bulkA", "bulkA", "bulkA", "bulkB", "bulkB", "bulkB">>

QueryTitles == {<<>>, <<"the">>, FD, <<" ", "Fraud", "detection">>}

QueryConcepts == {<<" ">>, <<"the">>, <<"fraud">>, FG}

\* existing researches: JSON objects with a title and an abstract
Researches ==
    { [title |-> FD, abstract |-> FG],
      [title |-> FG, abstract |-> <<"detection", "garden">>],
      [title |-> <<>>, abstract |-> <<" ">>],
      [title |-> BulkTitle, abstract |-> BulkAbstract],
      [title |-> <<"the", "r">>, abstract |-> <<"detection", "fraud", "fraud">>],
      [title |-> <<" ", "Fraud", "detection">>, abstract |-> <<"Fraud", " ", "garden", " ">>] }

\* an element of existing_researches that is no JSON object (a string)
NotDict == [notdict |-> TRUE]

\* what existing_researches may hold: objects, an object without
\* "abstract", an object whose title is a number, and a non-object
Items ==
    Researches \cup {[title |-> FD], [title |-> NonString, abstract |-> FG], NotDict}

\* the documents on stdin: not JSON, a JSON array, or a JSON object, which
\* may lack keys
StdinInputs ==
    {[kind |-> "malformed"], [kind |-> "array"]}
    \cup { [kind |-> "object",
            data |-> [proposed_title |-> t, proposed_concept |-> c,
                      existing_researches |-> rs]]
           : t \in {<<"the">>, FD}, c \in {<<"the">>, FG}, rs \in SeqsUpTo(Items, MaxN) }
    \cup { [kind |-> "object", data |-> [proposed_concept |-> c]] : c \in QueryConcepts }

DropLast(s) == SubSeq(s, 1, Len(s) - 1)

\* the arguments of a direct call: parallel lists, or lists of which one
\* has lost its last element
CallInputs ==
    LET Lists(rs) ==
            LET ts == [i \in DOMAIN rs |-> rs[i].title]
                as == [i \in DOMAIN rs |-> rs[i].abstract]
            IN  {<<ts, as>>}
                \cup (IF rs = <<>> THEN {} ELSE {<<DropLast(ts), as>>, <<ts, DropLast(as)>>})
    IN  { [proposed_title |-> t, proposed_concept |-> c,
           existing_titles |-> l[1], existing_abstracts |-> l[2]]
          : t \in QueryTitles, c \in QueryConcepts,
            l \in UNION {Lists(rs) : rs \in SeqsUpTo(Researches, MaxN)} }

(***************************************************************************)
(* State.                                                                  *)
(***************************************************************************)
VARIABLES
    mode,                   \* "main": the script is run; "call": the function is called
    pc,                     \* position of the run
    stdin,                  \* main: the document on standard input
    proposed_title,         \* arguments of calculate_cosine_similarity
    proposed_concept,
    existing_titles,
    existing_abstracts,
    title_fit,              \* what became of title_vectorizer.fit_transform
    abstract_fit,           \* what became of abstract_vectorizer.fit_transform
    title_similarities,     \* the function's locals, in units of 10^-7
    abstract_similarities,
    results,                \* the returned list
    error,                  \* the exception that left the function or main's try
    stdout,                 \* what main printed to standard output
    stderr,                 \* what was printed to standard error
    exit_status             \* the process's exit status, -1 while running

rankVars == <<mode, pc, stdin, proposed_title, proposed_concept, existing_titles,
              existing_abstracts, title_fit, abstract_fit, title_similarities,
              abstract_similarities, results, error, stdout, stderr, exit_status>>

\* trafilatura_extract.py
VARIABLES
    HAS_TRAFILATURA,        \* whether "import trafilatura" succeeded
    HAS_REQUESTS,           \* whether "import requests" succeeded
    xpc,                    \* position of the extractor's main
    xstdin,                 \* the document on its standard input
    urls,                   \* the parsed array
    next_url,               \* index in urls of the loop's next element
    result,                 \* the dict: a set of [url, text] with one entry per url
    fetched,                \* per handled element: whether each fetcher failed, and
                            \* whether an exception left fetch_and_extract
    xstdout,                \* what was printed to standard output
    xstderr                 \* the lines written to standard error

extractVars == <<HAS_TRAFILATURA, HAS_REQUESTS, xpc, xstdin, urls, next_url, result,
                 fetched, xstdout, xstderr>>

vars == <<rankVars, extractVars>>

\* the extractor is not run
ExtractorIdle ==
    /\ HAS_TRAFILATURA = FALSE
    /\ HAS_REQUESTS = FALSE
    /\ xpc = "idle"
    /\ xstdin = [kind |-> "none"]
    /\ urls = <<>>
    /\ next_url = 0
    /\ result = {}
    /\ fetched = <<>>
    /\ xstdout = <<>>
    /\ xstderr = <<>>


NoCall ==
    /\ title_fit = "not reached"
    /\ abstract_fit = "not reached"
    /\ title_similarities = <<>>
    /\ abstract_similarities = <<>>
    /\ results = <<>>
    /\ error = ""
    /\ stdout = <<>>
    /\ stderr = <<>>
    /\ exit_status = -1

\* the ranker is not run
RankerIdle ==
    /\ mode = "none"
    /\ pc = "idle"
    /\ stdin = [kind |-> "none"]
    /\ proposed_title = <<>>
    /\ proposed_concept = <<>>
    /\ existing_titles = <<>>
    /\ existing_abstracts = <<>>
    /\ NoCall

InitMain ==
    /\ mode = "main"
    /\ pc = "read"
    /\ stdin \in StdinInputs
    /\ proposed_title = <<>>
    /\ proposed_concept = <<>>
    /\ existing_titles = <<>>
    /\ existing_abstracts = <<>>
    /\ NoCall

InitCall ==
    /\ mode = "call"
    /\ pc = "calc"
    /\ stdin = [kind |-> "none"]
    /\ \E args \in CallInputs :
        /\ proposed_title = args.proposed_title
        /\ proposed_concept = args.proposed_concept
        /\ existing_titles = args.existing_titles
        /\ existing_abstracts = args.existing_abstracts
    /\ NoCall

Init == (InitMain \/ InitCall) /\ ExtractorIdle

(***************************************************************************)
(* main, lines 113-121: json.load and the extraction of the arguments.     *)
(***************************************************************************)
Get(d, key, default) == IF key \in DOMAIN d THEN d[key] ELSE default

IsDict(r) == "notdict" \notin DOMAIN r

\* the exception raised while reading, "" when there is none
ReadError(in) ==
    IF in.kind = "malformed" THEN "JSONDecodeError"
    ELSE IF in.kind = "array" THEN "AttributeError"
    ELSE LET rs == Get(in.data, "existing_researches", <<>>)
         IN  IF \E i \in DOMAIN rs : ~IsDict(rs[i]) THEN "AttributeError" ELSE ""

MainRead ==
    /\ mode = "main"
    /\ pc = "read"
    /\ IF ReadError(stdin) # ""
       THEN /\ pc' = "raised"
            /\ error' = ReadError(stdin)
            /\ UNCHANGED <<proposed_title, proposed_concept, existing_titles,
                           existing_abstracts>>
       ELSE LET rs == Get(stdin.data, "existing_researches", <<>>)
            IN  /\ proposed_title' = Get(stdin.data, "proposed_title", <<>>)
                /\ proposed_concept' = Get(stdin.data, "proposed_concept", <<>>)
                /\ existing_titles' = [i \in DOMAIN rs |-> Get(rs[i], "title", <<>>)]
                /\ existing_abstracts' = [i \in DOMAIN rs |-> Get(rs[i], "abstract", <<>>)]
                /\ pc' = "calc"
                /\ error' = ""
    /\ UNCHANGED extractVars
    /\ UNCHANGED <<mode, stdin, title_fit, abstract_fit, title_similarities,
                   abstract_similarities, results, stdout, stderr, exit_status>>

(***************************************************************************)
(* calculate_cosine_similarity, lines 39-106, called by main or directly.  *)
(***************************************************************************)
FitErrorLines(out) ==
    (IF out.title.fit = "raised"
     THEN <<[line |-> "Error in title similarity calculation"]>> ELSE <<>>)
    \o (IF out.abstract.fit = "raised"
        THEN <<[line |-> "Error in abstract similarity calculation"]>> ELSE <<>>)

Calculate ==
    /\ pc = "calc"
    /\ \E out \in CalculateOutcomes(proposed_title, proposed_concept,
                                    existing_titles, existing_abstracts) :
        /\ title_fit' = out.title.fit
        /\ abstract_fit' = out.abstract.fit
        /\ title_similarities' = out.title.sims
        /\ abstract_similarities' = out.abstract.sims
        /\ results' = out.results
        /\ error' = out.error
        /\ stderr' = stderr \o FitErrorLines(out)
        /\ pc' = IF out.raised THEN "raised" ELSE "returned"
    /\ UNCHANGED extractVars
    /\ UNCHANGED <<mode, stdin, proposed_title, proposed_concept, existing_titles,
                   existing_abstracts, stdout, exit_status>>

(***************************************************************************)
(* main, lines 131-148: the success output, or the except clause.          *)
(***************************************************************************)
SuccessOutput ==
    [success |-> TRUE,
     proposed_title |-> proposed_title,
     proposed_concept |-> proposed_concept,
     similarities |-> results,
     total_comparisons |-> Len(results)]

ErrorOutput == [success |-> FALSE, error |-> error]

MainEmit ==
    /\ mode = "main"
    /\ pc = "returned"
    /\ stdout' = Append(stdout, SuccessOutput)
    /\ exit_status' = 0
    /\ pc' = "exited"
    /\ UNCHANGED extractVars
    /\ UNCHANGED <<mode, stdin, proposed_title, proposed_concept, existing_titles,
                   existing_abstracts, title_fit, abstract_fit, title_similarities,
                   abstract_similarities, results, error, stderr>>

\* an except clause that prints the error object to standard output
MainExcept_ToStdout ==
    /\ mode = "main"
    /\ pc = "raised"
    /\ stdout' = Append(stdout, ErrorOutput)
    /\ exit_status' = 1
    /\ pc' = "exited"
    /\ UNCHANGED extractVars
    /\ UNCHANGED <<mode, stdin, proposed_title, proposed_concept, existing_titles,
                   existing_abstracts, title_fit, abstract_fit, title_similarities,
                   abstract_similarities, results, error, stderr>>

MainExcept ==
    /\ mode = "main"
    /\ pc = "raised"
    /\ stderr' = Append(stderr, ErrorOutput)
    /\ exit_status' = 1
    /\ pc' = "exited"
    /\ UNCHANGED extractVars
    /\ UNCHANGED <<mode, stdin, proposed_title, proposed_concept, existing_titles,
                   existing_abstracts, title_fit, abstract_fit, title_similarities,
                   abstract_similarities, results, error, stdout>>

Next == MainRead \/ Calculate \/ MainEmit \/ MainExcept

Spec == Init /\ [][Next]_vars

(***************************************************************************)
(* Properties of calculate_cosine_similarity and main.                     *)
(***************************************************************************)
N == Len(existing_titles)

EqualLengths == Len(existing_titles) = Len(existing_abstracts)

AllStrings == ~PreprocessRaises(proposed_title, proposed_concept,
                                existing_titles, existing_abstracts)

Indices(rs) == {rs[i].index : i \in DOMAIN rs}

\* the function has been called and has got past its preprocessing
Called == title_fit # "not reached"

\* C1: a call with lists of equal length N returns exactly N records whose
\* index fields are 0..N-1, each once, and main reports total_comparisons = N
\* with the same N records (an empty list and 0 for N = 0).
C1_LengthAndPermutation ==
    /\ (EqualLengths /\ Called) =>
          /\ pc \in {"returned", "exited"}
          /\ Len(results) = N
          /\ Indices(results) = 0..(N - 1)
    /\ (mode = "main" /\ pc = "exited" /\ exit_status = 0) =>
          /\ Len(stdout) = 1
          /\ stdout[1].total_comparisons = N
          /\ Len(stdout[1].similarities) = N
          /\ Indices(stdout[1].similarities) = 0..(N - 1)

C1_Witness ==
    /\ mode = "main" /\ pc = "exited" /\ exit_status = 0
    /\ N = MaxN
    /\ stdout[1].total_comparisons = MaxN
    /\ stdout[1].similarities[1].index # 0

C1_WitnessEmpty ==
    /\ mode = "main" /\ pc = "exited" /\ exit_status = 0
    /\ N = 0 /\ stdout[1].similarities = <<>> /\ stdout[1].total_comparisons = 0

\* C2: the returned list is in non-increasing order of overall_similarity,
\* and records of equal overall_similarity are in increasing order of index.
C2_SortedStable ==
    pc = "returned" =>
        \A i, j \in DOMAIN results :
            i < j =>
                /\ results[i].overall_similarity >= results[j].overall_similarity
                /\ results[i].overall_similarity = results[j].overall_similarity
                      => results[i].index < results[j].index

C2_Witness ==
    /\ pc = "returned"
    /\ \E i, j \in DOMAIN results :
          /\ i < j
          /\ results[i].overall_similarity = results[j].overall_similarity
          /\ results[i].overall_similarity > 0

C2_WitnessReordered ==
    /\ pc = "returned"
    /\ \E i \in DOMAIN results : results[i].index # i - 1

\* round(0.4 * t + 0.6 * a, 4) of the 4-decimal output fields t and a
FromRoundedFields(r) ==
    RoundHalfEven(r.title_similarity * TitleWeight + r.abstract_similarity * AbstractWeight,
                  10)

Abs(x) == IF x < 0 THEN -x ELSE x

\* C3 (as claimed): every record's overall_similarity equals
\* round(0.4*title_similarity + 0.6*abstract_similarity, 4) computed from the
\* record's own rounded title_similarity and abstract_similarity fields.
C3_OverallFromRoundedFields ==
    (pc = "returned" /\ EqualLengths) =>
        \A i \in DOMAIN results :
            results[i].overall_similarity = FromRoundedFields(results[i])

\* C3 (amended): every record's overall_similarity is round(0.4*t + 0.6*a, 4)
\* of the unrounded similarities t and a of its candidate, and differs from
\* the value computed from the rounded output fields by at most 0.0001.
C3_OverallFromUnrounded ==
    (pc = "returned" /\ EqualLengths) =>
        \A i \in DOMAIN results :
            LET k == results[i].index + 1
                w == TitleWeight * title_similarities[k]
                         + AbstractWeight * abstract_similarities[k]
                d == 10 * (Unit \div Unit4)
            IN  /\ 2 * (results[i].overall_similarity * d) - d <= 2 * w
                /\ 2 * w <= 2 * (results[i].overall_similarity * d) + d
                /\ Abs(results[i].overall_similarity - FromRoundedFields(results[i])) <= 1

C3_Witness ==
    /\ pc = "returned"
    /\ \E i \in DOMAIN results :
          /\ results[i].title_similarity > 0
          /\ results[i].abstract_similarity > 0
          /\ results[i].title_similarity < Unit4
          /\ title_similarities[results[i].index + 1] % (Unit \div Unit4) # 0

\* C4 (as claimed): a call whose title list and abstract list differ in
\* length, either way, ends by raising an error and returns no list.
C4_MismatchAborts ==
    (mode = "call" /\ ~EqualLengths /\ pc # "calc") =>
        (pc = "raised" /\ results = <<>>)

AllZero(row) == \A i \in DOMAIN row : row[i] = 0

\* the abstract rows calculate_cosine_similarity may compute for the current
\* concept and abstracts when given the query title t and candidate titles ts
AbstractRowsWith(t, ts) ==
    {o.abstract.sims : o \in CalculateOutcomes(t, proposed_concept, ts, existing_abstracts)}

\* the title rows it may compute for the current titles when given the
\* concept c and candidate abstracts as
TitleRowsWith(c, as) ==
    {o.title.sims : o \in CalculateOutcomes(proposed_title, c, existing_titles, as)}

OtherTitles == {<<>>, FD}
OtherConcepts == {<<" ">>, FG}
AllOf(text) == [i \in 1..N |-> text]

\* C5: when the query title is empty or the title vectorisation raises, the
\* call still returns N records, every title_similarity is 0.0, and the
\* abstract similarities are what they are for any other title inputs; and
\* the same with the two fields exchanged.
C5_FieldFailureIsLocal ==
    (Called /\ EqualLengths) =>
        /\ (preprocess_text(proposed_title) = <<>> \/ title_fit = "raised") =>
              /\ pc \in {"returned", "exited"}
              /\ Len(results) = N
              /\ \A i \in DOMAIN results : results[i].title_similarity = 0
              /\ \A t \in OtherTitles :
                    /\ abstract_similarities \in AbstractRowsWith(t, existing_titles)
                    /\ abstract_similarities \in AbstractRowsWith(t, AllOf(FD))
        /\ (preprocess_text(proposed_concept) = <<>> \/ abstract_fit = "raised") =>
              /\ pc \in {"returned", "exited"}
              /\ Len(results) = N
              /\ \A i \in DOMAIN results : results[i].abstract_similarity = 0
              /\ \A c \in OtherConcepts :
                    /\ title_similarities \in TitleRowsWith(c, existing_abstracts)
                    /\ title_similarities \in TitleRowsWith(c, AllOf(FG))

C5_Witness ==
    /\ pc = "returned" /\ EqualLengths /\ N = MaxN
    /\ title_fit = "raised"
    /\ abstract_fit = "ok"
    /\ \E i \in DOMAIN results : results[i].abstract_similarity > 0

\* neither empty nor made of stop words alone
Meaningful(text) ==
    /\ IsStr(text)
    /\ \E i \in DOMAIN text : text[i] \notin StopWords \cup {" "}

\* C6 (as claimed): a candidate whose title is the query title and whose
\* abstract is the query concept, both meaningful, has overall_similarity 1.0,
\* whatever the other candidates are.
C6_SelfSimilarity ==
    (pc = "returned" /\ EqualLengths) =>
        \A i \in DOMAIN results :
            LET k == results[i].index + 1
            IN  ( /\ existing_titles[k] = proposed_title
                  /\ existing_abstracts[k] = proposed_concept
                  /\ Meaningful(proposed_title)
                  /\ Meaningful(proposed_concept) )
                => results[i].overall_similarity = Unit4

\* C7: the three similarity fields of every returned record lie in [0, 1].
C7_UnitInterval ==
    pc = "returned" =>
        \A i \in DOMAIN results :
            /\ results[i].title_similarity \in 0..Unit4
            /\ results[i].abstract_similarity \in 0..Unit4
            /\ results[i].overall_similarity \in 0..Unit4

C7_Witness ==
    /\ pc = "returned"
    /\ title_fit = "ok"
    /\ abstract_fit = "skipped"
    /\ \E i, j \in DOMAIN results :
          /\ results[i].title_similarity = Unit4
          /\ results[j].title_similarity \in 1..(Unit4 - 1)

IsErrorObject(x) == "success" \in DOMAIN x /\ ~x.success

\* C8: a run of main that has ended either printed the whole result object
\* (with every record) to standard output and exited with status 0, or
\* printed nothing to standard output, emitted one {success: false, error}
\* object and exited with status 1; the second happens exactly for input
\* that is not JSON, has the wrong shape, or makes the ranking raise.
C8_MainOutcomes ==
    mode = "main" =>
        /\ pc # "exited" =>
              /\ stdout = <<>>
              /\ exit_status = -1
              /\ \A i \in DOMAIN stderr : ~IsErrorObject(stderr[i])
        /\ pc = "exited" =>
              \/ /\ exit_status = 0
                 /\ ReadError(stdin) = ""
                 /\ AllStrings
                 /\ stdout = <<SuccessOutput>>
                 /\ Len(stdout[1].similarities) = N
                 /\ \A i \in DOMAIN stderr : ~IsErrorObject(stderr[i])
              \/ /\ exit_status = 1
                 /\ ReadError(stdin) # "" \/ ~AllStrings
                 /\ stdout = <<>>
                 /\ error # ""
                 /\ stderr = <<[success |-> FALSE, error |-> error]>>

C8_Witness ==
    /\ mode = "main" /\ pc = "exited" /\ exit_status = 1
    /\ stdin.kind = "object"
    /\ Called = FALSE
    /\ Len(existing_titles) > 0

EmptyQuery(q) == preprocess_text(q) = <<>>

AllEmpty(corpus) == \A i \in DOMAIN corpus : preprocess_text(corpus[i]) = <<>>

\* C10 (as claimed): for each field, if the normalised query is empty, or
\* there is no candidate, or every candidate text is empty after
\* normalisation, every similarity of the field is 0.0 and fit_transform is
\* not called for the field.
C10_EmptyFieldSkipsVectorizer ==
    Called =>
        /\ (EmptyQuery(proposed_title) \/ AllEmpty(existing_titles)) =>
              (AllZero(title_similarities) /\ title_fit = "skipped")
        /\ (EmptyQuery(proposed_concept) \/ AllEmpty(existing_abstracts)) =>
              (AllZero(abstract_similarities) /\ abstract_fit = "skipped")

\* C10 (amended): for each field, if the normalised query is empty or there
\* is no candidate, every similarity of the field is 0.0 and fit_transform is
\* not called; if there are candidates and all of them are empty after
\* normalisation while the query is not, fit_transform is called and every
\* similarity of the field is still 0.0.
C10_EmptyQueryOrNoCandidate ==
    Called =>
        /\ (EmptyQuery(proposed_title) \/ existing_titles = <<>>) <=>
              title_fit = "skipped"
        /\ (EmptyQuery(proposed_concept) \/ existing_abstracts = <<>>) <=>
              abstract_fit = "skipped"
        /\ (EmptyQuery(proposed_title) \/ AllEmpty(existing_titles)) =>
              AllZero(title_similarities)
        /\ (EmptyQuery(proposed_concept) \/ AllEmpty(existing_abstracts)) =>
              AllZero(abstract_similarities)

C10_Witness ==
    /\ Called
    /\ ~EmptyQuery(proposed_concept)
    /\ existing_abstracts # <<>>
    /\ AllEmpty(existing_abstracts)
    /\ abstract_fit = "ok"
    /\ AllZero(abstract_similarities)
    /\ EmptyQuery(proposed_title)
    /\ existing_titles # <<>>
    /\ title_fit = "skipped"

(***************************************************************************)
(* trafilatura_extract.py.                                                 *)
(*                                                                         *)
(* A url is a pair <<scheme, rest>>; a text is [id, chars], its identity   *)
(* and its length; a fetched page is [id, main, stripped]: the length of   *)
(* the text trafilatura.extract finds in it (0: None) and of the text left *)
(* by stripping its tags.                                                  *)
(***************************************************************************)
MAX_TEXT_CHARS == 50000

EmptyText == [id |-> "", chars |-> 0]

NoPage == [id |-> "none", main |-> 0, stripped |-> 0]

Pages ==
    { [id |-> "article", main |-> 60000, stripped |-> 70000],
      [id |-> "scripts", main |-> 0, stripped |-> 0] }

\* array elements: strings (urls) and integer literals, an integer literal
\* being the number of its digits
UrlElements ==
    { [str |-> <<"http://", "a">>], [str |-> <<"https://", "b">>],
      [str |-> <<"ftp://", "c">>], [str |-> <<"", "">>],
      [digits |-> 1], [digits |-> 5000] }

IsString(e) == "str" \in DOMAIN e

XStdinInputs ==
    {[kind |-> "empty"], [kind |-> "notjson"], [kind |-> "object"]}
    \cup {[kind |-> "array", elements |-> es] : es \in SeqsUpTo(UrlElements, MaxUrls)}

\* The interpreter's limit on the digits of an integer converted from text:
\* 4300 by default since CPython 3.11, none (0) before.
IntMaxStrDigits == {0, 4300}

\* json.loads(raw) of an array raises ValueError, which is not a
\* JSONDecodeError, when an integer literal has more digits than the limit
JsonLoadsRaisesValueError(elements, limit) ==
    /\ limit > 0
    /\ \E i \in DOMAIN elements :
          "digits" \in DOMAIN elements[i] /\ elements[i].digits > limit

\* text[:MAX_TEXT_CHARS]
Truncate(id, chars) == [id |-> id, chars |-> Min(chars, MAX_TEXT_CHARS)]

\* url.startswith(("http://", "https://")), false for the empty string
Fetchable(url) == url[1] \in {"http://", "https://"}

\* What the world may do for one url: trafilatura.fetch_url raises, returns
\* None or returns a page; requests.get raises, answers with an error status
\* or answers with a page; trafilatura.extract raises or returns; and an
\* exception (MemoryError) may escape the tag stripping of step 4.
Worlds ==
    [fetch_url : {"raises", "none"} \cup {pg.id : pg \in Pages},
     get : {"raises", "not ok"} \cup {pg.id : pg \in Pages},
     extract : {"raises", "returns"},
     strip_raises : BOOLEAN]

PageOf(id) == IF \E pg \in Pages : pg.id = id THEN CHOOSE pg \in Pages : pg.id = id ELSE NoPage

\* html_content after steps 1 and 2
HtmlContent(w, hasT, hasR) ==
    LET first == IF hasT THEN PageOf(w.fetch_url) ELSE NoPage
    IN  IF first = NoPage /\ hasR THEN PageOf(w.get) ELSE first

\* fetch_and_extract(url) in world w: [raised, text]
fetch_and_extract(url, w, hasT, hasR) ==
    IF ~Fetchable(url) THEN [raised |-> FALSE, text |-> EmptyText]
    ELSE LET html == HtmlContent(w, hasT, hasR)
         IN  IF html = NoPage THEN [raised |-> FALSE, text |-> EmptyText]
             ELSE IF hasT /\ w.extract = "returns" /\ html.main > 0
                  THEN [raised |-> FALSE,
                        text |-> Truncate(html.id \o " main text", html.main)]
             ELSE IF w.strip_raises THEN [raised |-> TRUE, text |-> EmptyText]
             ELSE IF html.stripped = 0 THEN [raised |-> FALSE, text |-> EmptyText]
             ELSE [raised |-> FALSE,
                   text |-> Truncate(html.id \o " stripped", html.stripped)]

\* result[url] = text
SetItem(d, url, text) == {e \in d : e.url # url} \cup {[url |-> url, text |-> text]}

InitExtract ==
    /\ RankerIdle
    /\ HAS_TRAFILATURA \in BOOLEAN
    /\ HAS_REQUESTS \in BOOLEAN
    /\ xpc = "read"
    /\ xstdin \in XStdinInputs
    /\ urls = <<>>
    /\ next_url = 0
    /\ result = {}
    /\ fetched = <<>>
    /\ xstdout = <<>>
    /\ xstderr = <<>>

\* main, lines 117-134
ExtractRead ==
    /\ xpc = "read"
    /\ IF xstdin.kind = "array"
       THEN \E limit \in IntMaxStrDigits :
               IF JsonLoadsRaisesValueError(xstdin.elements, limit)
               THEN /\ xstderr' = Append(xstderr, [line |-> "Traceback: ValueError",
                                                   url |-> <<"", "">>])
                    /\ xpc' = "crashed"
                    /\ UNCHANGED <<urls, next_url, xstdout>>
               ELSE /\ urls' = xstdin.elements
                    /\ next_url' = 1
                    /\ xpc' = "loop"
                    /\ UNCHANGED <<xstdout, xstderr>>
       ELSE /\ xstdout' = Append(xstdout, {})
            /\ xstderr' = IF xstdin.kind = "empty" THEN xstderr
                          ELSE Append(xstderr, [line |-> "input", url |-> <<"", "">>])
            /\ xpc' = "done"
            /\ UNCHANGED <<urls, next_url>>
    /\ UNCHANGED <<HAS_TRAFILATURA, HAS_REQUESTS, xstdin, result, fetched>>
    /\ UNCHANGED rankVars

\* one turn of the loop of lines 135-148
ExtractUrl ==
    /\ xpc = "loop"
    /\ next_url <= Len(urls)
    /\ LET e == urls[next_url]
       IN  IF ~IsString(e)
           THEN /\ fetched' = Append(fetched, [skipped |-> TRUE])
                /\ UNCHANGED <<result, xstderr>>
           ELSE \E w \in Worlds :
                   LET out == fetch_and_extract(e.str, w, HAS_TRAFILATURA, HAS_REQUESTS)
                   IN  /\ fetched' = Append(fetched,
                              [skipped |-> FALSE,
                               fetch_url_failed |-> w.fetch_url \in {"raises", "none"},
                               get_failed |-> w.get \in {"raises", "not ok"},
                               raised |-> out.raised])
                       /\ result' = SetItem(result, e.str, out.text)
                       /\ xstderr' = Append(xstderr,
                              [line |-> IF out.raised THEN "ERROR" ELSE "chars / words",
                               url |-> e.str])
    /\ next_url' = next_url + 1
    /\ UNCHANGED <<HAS_TRAFILATURA, HAS_REQUESTS, xpc, xstdin, urls, xstdout>>
    /\ UNCHANGED rankVars

\* line 150
ExtractPrint ==
    /\ xpc = "loop"
    /\ next_url > Len(urls)
    /\ xstdout' = Append(xstdout, result)
    /\ xpc' = "done"
    /\ UNCHANGED <<HAS_TRAFILATURA, HAS_REQUESTS, xstdin, urls, next_url, result,
                   fetched, xstderr>>
    /\ UNCHANGED rankVars

NextExtract == ExtractRead \/ ExtractUrl \/ ExtractPrint

SpecExtract == InitExtract /\ [][NextExtract]_vars

(***************************************************************************)
(* The extractor's contract.                                               *)
(***************************************************************************)
StringIndices == {i \in DOMAIN urls : IsString(urls[i])}

\* the last element of the array that is the string urls[i].str
LastOccurrence(i) ==
    /\ i \in StringIndices
    /\ \A j \in StringIndices : urls[j].str = urls[i].str => j <= i

ValueOf(d, url) == (CHOOSE e \in d : e.url = url).text

\* every fetcher that is installed failed or returned nothing
AllFetchersFailed(f) ==
    /\ HAS_TRAFILATURA => f.fetch_url_failed
    /\ HAS_REQUESTS => f.get_failed

\* one object is printed; its keys are the string elements of the array;
\* the value of a url is empty when the url is not an http(s) url, when
\* every installed fetcher failed for it or when an exception left
\* fetch_and_extract; every element of the array was handled
ArrayAnswered ==
    /\ xpc = "done"
    /\ Len(xstdout) = 1
    /\ LET printed == xstdout[1]
       IN  /\ {e.url : e \in printed} = {urls[i].str : i \in StringIndices}
           /\ \A e1, e2 \in printed : e1.url = e2.url => e1 = e2
           /\ \A i \in StringIndices :
                 (/\ LastOccurrence(i)
                  /\ \/ ~Fetchable(urls[i].str)
                     \/ AllFetchersFailed(fetched[i])
                     \/ fetched[i].raised)
                 => ValueOf(printed, urls[i].str) = EmptyText
    /\ Len(fetched) = Len(xstdin.elements)
    /\ urls = xstdin.elements

EmptyObjectPrinted == xstdout = <<{}>>

ExtractorOver == xpc \in {"done", "crashed"}

\* C9: when main is over, a stdin that is a JSON array was answered with one
\* object whose keys are the string elements of the array, the value of a
\* url being empty when it is not an http(s) url, when every installed
\* fetcher failed or when an exception left fetch_and_extract, every
\* element having been handled; any other stdin was answered with {}; and
\* main never ends with a traceback.
C9_ArrayAlwaysAnswered ==
    ExtractorOver =>
        /\ xpc # "crashed"
        /\ IF xstdin.kind = "array" THEN ArrayAnswered ELSE EmptyObjectPrinted

\* The part of C9 that the code keeps: once json.loads has returned, the
\* array is answered as C9 says, and any other stdin is answered with {}.
ParsedArrayAnswered ==
    xpc = "done" =>
        IF xstdin.kind = "array" THEN ArrayAnswered ELSE EmptyObjectPrinted

\* a failed url, then a url whose text was extracted, both printed
ParsedArrayAnswered_Witness ==
    /\ xpc = "done"
    /\ Len(urls) = 2
    /\ StringIndices = {1, 2}
    /\ urls[1].str # urls[2].str
    /\ fetched[1].raised
    /\ ValueOf(xstdout[1], urls[1].str) = EmptyText
    /\ ValueOf(xstdout[1], urls[2].str).chars = MAX_TEXT_CHARS

\* main ended with a traceback on a stdin that is a JSON array
C9_Crashed == xpc = "crashed" /\ xstdin.kind = "array" /\ xstdout = <<>>

====
